---- MODULE Spec2Model ----
(***************************************************************************)
(* A model of arpc: the JSON-RPC 2.0 protocol object                       *)
(* (src/arpc/protocols/jsonrpc.py), the serializer it is configured with   *)
(* (src/arpc/serializers/msgpack.py) and the server's per-message handler  *)
(* (src/arpc/server.py).                                                   *)
(*                                                                         *)
(* Python values are records [t, v, s]: t is the Python type, v an integer *)
(* payload (the number itself for int/float/bool, a content index for      *)
(* list/dict, where 0 is the empty container) and s the text of a str.     *)
(* A decoded top-level mapping (an envelope) is a record with one field    *)
(* per key that can occur; a key that is not in the mapping holds Absent.  *)
(* A byte string is a record [codec, doc]: the codec that produced it and  *)
(* the document it encodes; codec "none" is a byte string no codec reads.  *)
(*                                                                         *)
(* The names json (jsonrpc.py line 159) and pickle (msgpack.py lines 20,   *)
(* 23) are modelled as the standard library modules of those names. The    *)
(* import lists of the two files (jsonrpc.py lines 4-6, msgpack.py lines   *)
(* 4-7) do not bind them.                                                  *)
(***************************************************************************)
EXTENDS Integers, Sequences, FiniteSets, TLC

\* ------------------------------------------------------------ Python values

Absent == [t |-> "absent", v |-> 0, s |-> ""]
Null == [t |-> "null", v |-> 0, s |-> ""]
IntV(n) == [t |-> "int", v |-> n, s |-> ""]
BoolV(n) == [t |-> "bool", v |-> n, s |-> ""]
FloatV(n) == [t |-> "float", v |-> n, s |-> ""]
StrV(x) == [t |-> "str", v |-> 0, s |-> x]
ListV(n) == [t |-> "list", v |-> n, s |-> ""]
DictV(n) == [t |-> "dict", v |-> n, s |-> ""]

\* Python truth value: None, False, 0, 0.0, "", [] and {} are false.
Truthy(x) ==
    CASE x.t \in {"absent", "null"} -> FALSE
      [] x.t = "str" -> x.s # ""
      [] OTHER -> x.v # 0

\* isinstance(x, int): bool is a subclass of int.
IsInstanceInt(x) == x.t \in {"int", "bool"}
IsInstanceStr(x) == x.t = "str"
IsInstanceList(x) == x.t = "list"
IsInstanceDict(x) == x.t = "dict"

\* str(x), for the values a message can hold.
PyStr(x) ==
    CASE x.t = "str" -> x
      [] x.t = "null" -> StrV("None")
      [] x.t = "bool" -> StrV(IF x.v = 0 THEN "False" ELSE "True")
      [] x.t \in {"int", "float"} -> StrV(ToString(x.v))
      [] OTHER -> StrV(x.t)

\* dict.get(key): None when the key is not in the mapping.
Get(x) == IF x = Absent THEN Null ELSE x

\* ------------------------------------------------------------ envelopes

EnvelopeKeys == {"id", "jsonrpc", "method", "params", "error", "result", "foo"}

Envelope(id, jsonrpc, method, params, error, result, foo) ==
    [id |-> id, jsonrpc |-> jsonrpc, method |-> method, params |-> params,
     error |-> error, result |-> result, foo |-> foo]

\* The value of an "error" key that is a mapping, with its own keys.
ErrorDict(code, message, data) ==
    [t |-> "dict", v |-> 1, s |-> "", code |-> code, message |-> message, data |-> data]

IsMapping(doc) == "jsonrpc" \in DOMAIN doc
HasGet(x) == x.t = "dict"

\* req.keys()
Keys(env) == {k \in EnvelopeKeys : env[k] # Absent}

\* ------------------------------------------------------------ exceptions

\* A raised exception. Protocol errors carry code, message and data.
Error(name, code, message) ==
    [kind |-> "raise", exc |-> name, code |-> IntV(code), message |-> StrV(message),
     data |-> Null]

\* A raised exception that is not a protocol error.
PyException(name) ==
    [kind |-> "raise", exc |-> name, code |-> Null, message |-> StrV(name), data |-> Null]

ParseError == Error("ParseError", -32700, "Parse error.")
InvalidRequestError(message) == Error("InvalidRequestError", -32600, message)
MethodNotFoundError == Error("MethodNotFoundError", -32601, "Method not found")
InvalidParamsError(message) == Error("InvalidParamsError", -32602, message)
InternalError == Error("InternalError", -32603, "Internal error")
InvalidReplyError(message) == Error("InvalidReplyError", -32001, message)

ProtocolErrorNames ==
    {"ParseError", "InvalidRequestError", "MethodNotFoundError", "InvalidParamsError",
     "InternalError", "InvalidReplyError"}

\* isinstance(exc, self.Error)
IsProtocolError(exc) == exc.exc \in ProtocolErrorNames

IsRaise(x) == "kind" \in DOMAIN x /\ x.kind = "raise"

\* ------------------------------------------------------------ serializers

Serializers == {"msgpack", "json"}

\* A byte string that no codec decodes.
Garbage == [codec |-> "none", doc |-> Null]
IsBytes(x) == "codec" \in DOMAIN x

\* MsgpackSerializer.serialize: pickle.dumps(message).
MsgpackSerializer_serialize(message) == [codec |-> "pickle", doc |-> message]

\* MsgpackSerializer.deserialize: pickle.loads(data), which raises on bytes
\* that are not a pickle.
MsgpackSerializer_deserialize(data) ==
    IF data.codec = "pickle" THEN data.doc ELSE PyException("UnpicklingError")

\* The JSON serializer of the package: json.dumps(message).encode().
JsonSerializer_serialize(message) == [codec |-> "json", doc |-> message]

\* The JSON serializer of the package: json.loads(data).
JsonSerializer_deserialize(data) ==
    IF data.codec = "json" THEN data.doc ELSE PyException("JSONDecodeError")

\* self._serializer.serialize(msg)
Serializer_serialize(serializer, message) ==
    IF serializer = "msgpack"
    THEN MsgpackSerializer_serialize(message)
    ELSE JsonSerializer_serialize(message)

\* self._serializer.deserialize(data)
Serializer_deserialize(serializer, data) ==
    IF serializer = "msgpack"
    THEN MsgpackSerializer_deserialize(data)
    ELSE JsonSerializer_deserialize(data)

\* json.loads(data) of the standard library.
json_loads(data) ==
    IF data.codec = "json" THEN data.doc ELSE PyException("JSONDecodeError")

\* ------------------------------------------------------------ protocol objects

JSON_RPC_VERSION == StrV("2.0")
ALLOWED_REPLY_KEYS == {"id", "jsonrpc", "error", "result"}

\* The request keys written wrongly: the reply's result key is let through.
ALLOWED_REQUEST_KEYS_WithResult == {"id", "jsonrpc", "method", "params", "result"}

ALLOWED_REQUEST_KEYS == {"id", "jsonrpc", "method", "params"}

NoEnvelope == Envelope(Absent, Absent, Absent, Absent, Absent, Absent, Absent)

SuccessResponse(serializer, uid, result) ==
    [kind |-> "SuccessResponse", serializer |-> serializer, uid |-> uid, result |-> result]

\* SuccessResponse.serialize: the encoded bytes are computed and the method
\* ends without a return statement, so the call evaluates to None.
SuccessResponse_msg(self) ==
    [NoEnvelope EXCEPT !.jsonrpc = JSON_RPC_VERSION,
                       !.id = self.uid,
                       !.result = self.result]

SuccessResponse_serialize(self) ==
    LET encoded == Serializer_serialize(self.serializer, SuccessResponse_msg(self))
    IN  Null

ErrorResponse(serializer, code, message, uid, data) ==
    [kind |-> "ErrorResponse", serializer |-> serializer, code |-> code,
     message |-> message, uid |-> uid, data |-> data]

\* ErrorResponse.serialize written without its return statement.
ErrorResponse_serialize_NoReturn(self) == Null

\* ErrorResponse.serialize: hasattr(self, 'data') is true of every instance.
ErrorResponse_msg(self) ==
    [NoEnvelope EXCEPT !.jsonrpc = JSON_RPC_VERSION,
                       !.id = self.uid,
                       !.error = ErrorDict(self.code, PyStr(self.message), self.data)]

ErrorResponse_serialize(self) ==
    Serializer_serialize(self.serializer, ErrorResponse_msg(self))

\* Request.__init__ written without the test of line 79.
Request_Unchecked(serializer, method, uid, args, kwargs) ==
    [kind |-> "Request", serializer |-> serializer, method |-> method,
     uid |-> uid, args |-> args, kwargs |-> kwargs]

\* Request.__init__
Request(serializer, method, uid, args, kwargs) ==
    IF Truthy(args) /\ Truthy(kwargs)
    THEN InvalidRequestError("Does not support args and kwargs at the same time.")
    ELSE [kind |-> "Request", serializer |-> serializer, method |-> method,
          uid |-> uid, args |-> args, kwargs |-> kwargs]

\* Request.serialize, lines 89-98: the msg dict.
Request_msg(self) ==
    LET msg0 == [NoEnvelope EXCEPT !.jsonrpc = JSON_RPC_VERSION, !.method = self.method]
        msg1 == IF Truthy(self.args) THEN [msg0 EXCEPT !.params = self.args] ELSE msg0
        msg2 == IF Truthy(self.kwargs) THEN [msg1 EXCEPT !.params = self.kwargs] ELSE msg1
    IN  IF self.uid # Null THEN [msg2 EXCEPT !.id = self.uid] ELSE msg2

\* Request.serialize
Request_serialize(self) ==
    Serializer_serialize(self.serializer, Request_msg(self))

\* response.serialize() on whichever object the handler holds.
Serialize(obj) ==
    CASE obj.kind = "SuccessResponse" -> SuccessResponse_serialize(obj)
      [] obj.kind = "ErrorResponse" -> ErrorResponse_serialize(obj)
      [] obj.kind = "Request" -> Request_serialize(obj)

\* ------------------------------------------------------------ protocol methods

\* JSONRPCProtocol.create_response
create_response(serializer, request, reply) ==
    SuccessResponse(serializer, request.uid, reply)

\* create_error_response written without the request's uid.
create_error_response_NoUid(serializer, exc, request) ==
    ErrorResponse(serializer, IntV(-32603), StrV("Internal error"), Null, Null)

\* JSONRPCProtocol.create_error_response: both arms of the conditional
\* construct InternalError(). request is None or a Request object (which is
\* true in a condition).
create_error_response(serializer, exc, request) ==
    LET e == IF IsProtocolError(exc) THEN InternalError ELSE InternalError
        uid == IF request # Null THEN request.uid ELSE Null
    IN  ErrorResponse(serializer, e.code, e.message, uid, e.data)

\* JSONRPCProtocol.parse_request
parse_request(serializer, data) ==
    LET req == json_loads(data)
    IN  IF IsRaise(req) THEN ParseError
        ELSE IF ~IsMapping(req) THEN PyException("AttributeError")
        ELSE IF \E k \in Keys(req) : k \notin ALLOWED_REQUEST_KEYS
        THEN InvalidRequestError("Key not allowed")
        ELSE IF Get(req.jsonrpc) # JSON_RPC_VERSION
        THEN InvalidRequestError("Wrong or missing jsonrpc version")
        ELSE IF req.method = Absent THEN PyException("KeyError")
        ELSE IF ~IsInstanceStr(req.method) THEN InvalidRequestError("method must be str")
        ELSE LET uid == Get(req.id)
                 params == Get(req.params)
             IN  IF Truthy(uid) /\ ~IsInstanceInt(uid)
                 THEN InvalidRequestError("id must be int")
                 ELSE IF params # Null
                 THEN IF IsInstanceList(params)
                      THEN Request(serializer, req.method, uid, params, Null)
                      ELSE IF IsInstanceDict(params)
                      THEN Request(serializer, req.method, uid, Null, params)
                      ELSE InvalidParamsError("params must be list or dict")
                 ELSE Request(serializer, req.method, uid, Null, Null)

\* The error branch of parse_response (lines 214-226).
parse_error_object(serializer, uid, error) ==
    IF ~HasGet(error) THEN PyException("AttributeError")
    ELSE LET code == Get(error.code)
             message == Get(error.code)
             data == Get(error.data)
         IN  IF ~IsInstanceInt(code)
             THEN InvalidReplyError("error.code must be int")
             ELSE IF Truthy(message) /\ ~IsInstanceStr(message)
             THEN InvalidReplyError("error.message must be str")
             ELSE ErrorResponse(serializer, code, message, uid, data)

\* The test of line 208 written wrongly: only an envelope with both keys is
\* rejected.
NotExactlyOne_OnlyBoth(rep) == ("error" \in Keys(rep)) /\ ("result" \in Keys(rep))

\* The test of line 208.
NotExactlyOne(rep) == ("error" \in Keys(rep)) = ("result" \in Keys(rep))

\* JSONRPCProtocol.parse_response
parse_response(serializer, data) ==
    LET rep == Serializer_deserialize(serializer, data)
    IN  IF IsRaise(rep) THEN InvalidReplyError("Invalid reply")
        ELSE IF ~IsMapping(rep) THEN PyException("AttributeError")
        ELSE IF \E k \in Keys(rep) : k \notin ALLOWED_REPLY_KEYS
        THEN InvalidReplyError("Key not allowed")
        ELSE IF Get(rep.jsonrpc) # JSON_RPC_VERSION
        THEN InvalidReplyError("Wrong or missing jsonrpc version")
        ELSE LET uid == Get(rep.id)
             IN  IF Truthy(uid) /\ ~IsInstanceInt(uid)
                 THEN InvalidReplyError("id must be int")
                 ELSE IF NotExactlyOne(rep)
                 THEN InvalidReplyError("Reply must contain exactly one of result and error.")
                 ELSE IF "result" \in Keys(rep)
                 THEN SuccessResponse(serializer, uid, rep.result)
                 ELSE IF rep.error = Absent THEN PyException("KeyError")
                 ELSE parse_error_object(serializer, uid, rep.error)

\* ------------------------------------------------------------ state

VARIABLES
    serializer,   \* the protocol instance's _serializer
    counter,      \* the protocol instance's _counter
    op,           \* the protocol method last applied ("idle": none)
    input,        \* its argument
    output,       \* what it returned or raised
    source,       \* the object whose serialize() produced the bytes in input
    pc,           \* per caller: where it is inside create_request
    frame,        \* per caller: the arguments and locals of its create_request call
    calls,        \* create_request calls started so far
    returned,     \* the uids create_request returned, in the order the calls completed
    trace,        \* the server's trace attribute: what kind of object it holds
    hpc,          \* per handler invocation: idle, awaiting dispatch, returned, raised
    hmsg,         \* per handler invocation: its message argument
    hreq,         \* per handler invocation: its local request
    hret,         \* per handler invocation: the value it returned
    events        \* per handler invocation: the calls it made, in order

protocolVars == <<serializer, counter>>
callVars == <<op, input, output, source>>
clientVars == <<pc, frame, calls, returned>>
serverVars == <<trace, hpc, hmsg, hreq, hret, events>>
vars ==
    <<serializer, counter, op, input, output, source, pc, frame, calls, returned,
      trace, hpc, hmsg, hreq, hret, events>>

\* ------------------------------------------------------------ inputs

MethodValues == {Absent, StrV("add"), IntV(1)}
VersionValues == {Absent, StrV("2.0"), StrV("1.0")}
IdValues ==
    {Absent, Null, IntV(0), IntV(1), StrV(""), StrV("a"), FloatV(0), ListV(0),
     ListV(1), BoolV(0)}
ParamsValues == {Absent, Null, ListV(0), ListV(1), DictV(0), DictV(1), IntV(5), StrV("")}
ExtraValues == {Absent, IntV(1)}

RequestEnvelopes ==
    {Envelope(id, ver, m, ps, Absent, Absent, foo) :
        id \in IdValues, ver \in VersionValues, m \in MethodValues,
        ps \in ParamsValues, foo \in ExtraValues}

\* Decoded documents that are not mappings.
NonMappings == {Null, IntV(1), StrV("a"), ListV(1)}

Codecs == {"json", "pickle"}

\* Request envelopes that also hold a key of a reply.
RequestEnvelopesWithReplyKey ==
    {Envelope(IntV(1), JSON_RPC_VERSION, StrV("add"), ps, e, r, Absent) :
        ps \in {Absent, ListV(1)}, e \in {Absent, Null}, r \in {Absent, IntV(5)}}

RequestInputs ==
    {Garbage}
    \cup {[codec |-> c, doc |-> d] :
            c \in Codecs,
            d \in RequestEnvelopes \cup RequestEnvelopesWithReplyKey \cup NonMappings}

CodeValues == {Absent, IntV(0), IntV(-32603), StrV("x"), BoolV(1)}
MessageValues == {Absent, StrV("Internal error"), StrV(""), IntV(7)}
DataValues == {Absent, StrV("d")}
ErrorValues ==
    {Absent, Null, StrV("e"), ListV(1)}
    \cup {ErrorDict(c, m, d) : c \in CodeValues, m \in MessageValues, d \in DataValues}
ResultValues == {Absent, Null, IntV(5)}
ReplyIdValues == {Absent, Null, IntV(1), StrV(""), StrV("a"), FloatV(0)}

ReplyEnvelopes ==
    {Envelope(id, ver, Absent, Absent, e, r, foo) :
        id \in ReplyIdValues, ver \in VersionValues, e \in ErrorValues,
        r \in ResultValues, foo \in ExtraValues}

\* Reply envelopes that also hold a key of a request.
ReplyEnvelopesWithRequestKey ==
    {Envelope(IntV(1), JSON_RPC_VERSION, m, ps, Absent, IntV(5), Absent) :
        m \in {Absent, StrV("add")}, ps \in {Absent, ListV(1)}}

ReplyInputs ==
    {Garbage}
    \cup {[codec |-> c, doc |-> d] :
            c \in Codecs,
            d \in ReplyEnvelopes \cup ReplyEnvelopesWithRequestKey \cup NonMappings}

\* Values a dispatched method returns, handed to create_response.
ReplyValues == {Null, IntV(5), StrV("ok")}

\* Exceptions handed to create_error_response.
Exceptions ==
    {ParseError, InvalidRequestError("Invalid Request"), MethodNotFoundError,
     InvalidParamsError("Invalid params"), InternalError,
     InvalidReplyError("Invalid reply"), PyException("ValueError"),
     PyException("KeyError")}

\* ------------------------------------------------------------ protocol calls

InitProtocol ==
    /\ serializer \in Serializers
    /\ counter = 0

\* Callers of create_request on the one protocol instance.
NumCallers == 2
Callers == 1..NumCallers

\* create_request calls in one run.
MaxCalls == 3

NoFrame ==
    [method |-> Null, args |-> Null, kwargs |-> Null, one_way |-> FALSE,
     tmp |-> 0, uid |-> Null, result |-> Null]

InitCalls ==
    /\ op = "idle"
    /\ input = Null
    /\ output = Null
    /\ source = Null

InitClient ==
    /\ pc = [p \in Callers |-> "idle"]
    /\ frame = [p \in Callers |-> NoFrame]
    /\ calls = 0
    /\ returned = <<>>

\* Handler invocations that can be in flight at once.
NumHandlers == 2
Handlers == 1..NumHandlers

\* What Server.trace can hold: None, a plain function, an async def function
\* or a coroutine object.
TraceKinds == {"none", "function", "coroutinefunction", "coroutine"}

InitServerIdle ==
    /\ hpc = [h \in Handlers |-> "idle"]
    /\ hmsg = [h \in Handlers |-> Null]
    /\ hreq = [h \in Handlers |-> Null]
    /\ hret = [h \in Handlers |-> Null]
    /\ events = [h \in Handlers |-> <<>>]

InitParse ==
    /\ InitProtocol
    /\ InitCalls
    /\ InitClient
    /\ trace = "none"
    /\ InitServerIdle

\* protocol.parse_request(data)
ParseRequest(data) ==
    /\ op = "idle"
    /\ op' = "parse_request"
    /\ input' = data
    /\ output' = parse_request(serializer, data)
    /\ UNCHANGED <<serializer, counter, source, clientVars, serverVars>>

\* protocol.parse_response(data)
ParseResponse(data) ==
    /\ op = "idle"
    /\ op' = "parse_response"
    /\ input' = data
    /\ output' = parse_response(serializer, data)
    /\ UNCHANGED <<serializer, counter, source, clientVars, serverVars>>

\* protocol.create_error_response(exc, request)
CreateErrorResponse(exc, request) ==
    /\ op = "idle"
    /\ op' = "create_error_response"
    /\ input' = [exc |-> exc, request |-> request]
    /\ output' = create_error_response(serializer, exc, request)
    /\ UNCHANGED <<serializer, counter, source, clientVars, serverVars>>

\* protocol.create_response(request, reply)
CreateResponse(request, reply) ==
    /\ op = "idle"
    /\ op' = "create_response"
    /\ input' = [request |-> request, reply |-> reply]
    /\ output' = create_response(serializer, request, reply)
    /\ UNCHANGED <<serializer, counter, source, clientVars, serverVars>>

\* request.serialize() on a Request object
SerializeRequestObject(request) ==
    /\ op = "idle"
    /\ op' = "serialize"
    /\ input' = request
    /\ output' = Serialize(request)
    /\ source' = request
    /\ UNCHANGED <<serializer, counter, clientVars, serverVars>>

\* response.serialize() on the response just created
SerializeResponse ==
    /\ op \in {"create_error_response", "create_response"}
    /\ op' = "serialize"
    /\ input' = output
    /\ output' = Serialize(output)
    /\ source' = output
    /\ UNCHANGED <<serializer, counter, clientVars, serverVars>>

\* protocol.parse_response(...) on the bytes just produced
ParseSerialized ==
    /\ op = "serialize"
    /\ source.kind \in {"SuccessResponse", "ErrorResponse"}
    /\ IsBytes(output)
    /\ op' = "parse_response"
    /\ input' = output
    /\ output' = parse_response(serializer, output)
    /\ UNCHANGED <<serializer, counter, source, clientVars, serverVars>>

\* The caller takes the result; the instance is ready for the next call.
Return ==
    /\ op # "idle"
    /\ op' = "idle"
    /\ input' = Null
    /\ output' = Null
    /\ source' = Null
    /\ UNCHANGED <<serializer, counter, clientVars, serverVars>>

\* The request argument of create_error_response: None, a two-way request, a
\* one-way request.
RequestArguments ==
    {Null, Request(serializer, StrV("add"), IntV(1), ListV(1), Null),
     Request(serializer, StrV("ping"), Null, Null, Null)}

\* Request objects: two-way and one-way, with args, with kwargs, with an
\* empty args list, with neither.
RequestObjects ==
    {Request(serializer, StrV("add"), uid, a[1], a[2]) :
        uid \in {Null, IntV(1)},
        a \in {<<Null, Null>>, <<ListV(1), Null>>, <<Null, DictV(1)>>, <<ListV(0), Null>>}}

NextParse ==
    \/ \E data \in RequestInputs : ParseRequest(data)
    \/ \E data \in ReplyInputs : ParseResponse(data)
    \/ \E exc \in Exceptions, request \in RequestArguments : CreateErrorResponse(exc, request)
    \/ \E request \in RequestObjects, reply \in ReplyValues : CreateResponse(request, reply)
    \/ \E request \in RequestObjects : SerializeRequestObject(request)
    \/ SerializeResponse
    \/ ParseSerialized
    \/ Return

SpecParse == InitParse /\ [][NextParse]_vars

\* ------------------------------------------------------------ claims on parsing

IsResponse(x) == "kind" \in DOMAIN x /\ x.kind \in {"SuccessResponse", "ErrorResponse"}
IsRequest(x) == "kind" \in DOMAIN x /\ x.kind = "Request"
Raises(x, name) == IsRaise(x) /\ x.exc = name

\* The mapping that parse_request decoded from its argument, if it did.
DecodedRequest == json_loads(input)
ParsedRequestEnvelope ==
    op = "parse_request" /\ ~IsRaise(DecodedRequest) /\ IsMapping(DecodedRequest)

\* The mapping that parse_response decoded from its argument, if it did.
DecodedReply == Serializer_deserialize(serializer, input)
ParsedReplyEnvelope ==
    op = "parse_response" /\ ~IsRaise(DecodedReply) /\ IsMapping(DecodedReply)

\* An id that is present (and not null) and is not an integer.
NonIntegerId(id) == id.t \notin {"absent", "null", "int"}

\* C5: create_error_response(exc, request) returns an ErrorResponse with the
\* code, message and data of exc when exc is a protocol error, and with the
\* code of InternalError (-32603) for any other exception.
C5_PreservesProtocolError ==
    op = "create_error_response" =>
        /\ output.kind = "ErrorResponse"
        /\ IF IsProtocolError(input.exc)
           THEN /\ output.code = input.exc.code
                /\ output.message = input.exc.message
                /\ output.data = input.exc.data
           ELSE output.code = InternalError.code

\* A request envelope that is well formed apart from its id.
RequestEnvelopeApartFromId ==
    /\ ParsedRequestEnvelope
    /\ Keys(DecodedRequest) \subseteq ALLOWED_REQUEST_KEYS
    /\ DecodedRequest.jsonrpc = JSON_RPC_VERSION
    /\ IsInstanceStr(DecodedRequest.method)
    /\ DecodedRequest.params = Absent \/ DecodedRequest.params.t \in {"list", "dict"}

\* A reply envelope that is well formed apart from its id.
ReplyEnvelopeApartFromId ==
    /\ ParsedReplyEnvelope
    /\ Keys(DecodedReply) \subseteq ALLOWED_REPLY_KEYS
    /\ DecodedReply.jsonrpc = JSON_RPC_VERSION
    /\ DecodedReply.result # Absent
    /\ DecodedReply.error = Absent

\* C6: an envelope (well formed in every other field) whose id is present
\* and not an integer makes parse_request fail with InvalidRequest and
\* parse_response fail with InvalidReply; neither returns an object with a
\* non-integer uid.
C6_NonIntegerIdRejected ==
    /\ RequestEnvelopeApartFromId /\ NonIntegerId(DecodedRequest.id)
           => Raises(output, "InvalidRequestError")
    /\ ReplyEnvelopeApartFromId /\ NonIntegerId(DecodedReply.id)
           => Raises(output, "InvalidReplyError")
    /\ op \in {"parse_request", "parse_response"} /\ ~IsRaise(output)
           => output.uid.t \in {"null", "int"}

\* C7: parse_request returns a Request, or fails with ParseError (the input
\* is not decodable), or fails with InvalidRequest (the input is decodable);
\* no other error escapes it.
C7_ParseRequestOutcomes ==
    op = "parse_request" =>
        \/ IsRequest(output)
        \/ Raises(output, "ParseError") /\ IsRaise(DecodedRequest)
        \/ Raises(output, "InvalidRequestError") /\ ~IsRaise(DecodedRequest)

\* A reply envelope with jsonrpc "2.0", only allowed keys, a valid id, an
\* error object and no result.
ErrorReplyEnvelope ==
    /\ ParsedReplyEnvelope
    /\ Keys(DecodedReply) \subseteq ALLOWED_REPLY_KEYS
    /\ DecodedReply.jsonrpc = JSON_RPC_VERSION
    /\ ~NonIntegerId(DecodedReply.id)
    /\ DecodedReply.result = Absent
    /\ DecodedReply.error # Absent
    /\ HasGet(DecodedReply.error)

\* C8: for an error reply, parse_response returns an ErrorResponse with the
\* code, message and data of the error object when code is an integer and
\* message a string, and fails with InvalidReply otherwise; the bytes of a
\* serialized create_error_response(...) parse back to an ErrorResponse with
\* the same code, message and uid.
C8_ErrorReplyParsed ==
    /\ ErrorReplyEnvelope =>
           LET error == DecodedReply.error
           IN  IF IsInstanceInt(error.code) /\ IsInstanceStr(error.message)
               THEN /\ IsResponse(output) /\ output.kind = "ErrorResponse"
                    /\ output.code = error.code
                    /\ output.message = error.message
                    /\ output.data = Get(error.data)
               ELSE Raises(output, "InvalidReplyError")
    /\ op = "parse_response" /\ source # Null /\ source.kind = "ErrorResponse" =>
           /\ IsResponse(output) /\ output.kind = "ErrorResponse"
           /\ output.code = source.code
           /\ output.message = source.message
           /\ output.uid = source.uid

\* C9: parse_response returns a SuccessResponse or an ErrorResponse, or
\* fails with InvalidReply; no other error escapes it.
C9_ParseResponseOutcomes ==
    op = "parse_response" => IsResponse(output) \/ Raises(output, "InvalidReplyError")

\* C10: parse_response returns a response only when the decoded envelope
\* holds exactly one of the keys result and error; an envelope with both or
\* with neither is rejected with InvalidReply, whatever the values under
\* those keys.
C10_ExactlyOneOfResultAndError ==
    /\ op = "parse_response" /\ ~IsRaise(output) =>
           /\ ParsedReplyEnvelope
           /\ (DecodedReply.result # Absent) # (DecodedReply.error # Absent)
    /\ ParsedReplyEnvelope
       /\ (DecodedReply.result # Absent) = (DecodedReply.error # Absent)
           => Raises(output, "InvalidReplyError")

\* C10 witness: an otherwise valid envelope with result and error both
\* present, both null, was rejected by the test for exactly one of them.
C10_Witness ==
    /\ ParsedReplyEnvelope
    /\ Keys(DecodedReply) \subseteq ALLOWED_REPLY_KEYS
    /\ DecodedReply.jsonrpc = JSON_RPC_VERSION
    /\ DecodedReply.id = IntV(1)
    /\ DecodedReply.result = Null
    /\ DecodedReply.error = Null
    /\ output = InvalidReplyError("Reply must contain exactly one of result and error.")

\* The msg dict that obj.serialize() hands to the serializer.
Message(obj) ==
    CASE obj.kind = "SuccessResponse" -> SuccessResponse_msg(obj)
      [] obj.kind = "ErrorResponse" -> ErrorResponse_msg(obj)
      [] obj.kind = "Request" -> Request_msg(obj)

\* C11: parse_request rejects with InvalidRequest every decoded envelope
\* with a top-level key outside {id, jsonrpc, method, params}, and
\* parse_response rejects with InvalidReply every decoded envelope with a
\* top-level key outside {id, jsonrpc, error, result}; the envelopes that
\* Request.serialize, SuccessResponse.serialize and ErrorResponse.serialize
\* build hold only keys of the matching set.
C11_ClosedKeySets ==
    /\ (ParsedRequestEnvelope
         /\ ~(Keys(DecodedRequest) \subseteq {"id", "jsonrpc", "method", "params"}))
           => Raises(output, "InvalidRequestError")
    /\ (ParsedReplyEnvelope
         /\ ~(Keys(DecodedReply) \subseteq {"id", "jsonrpc", "error", "result"}))
           => Raises(output, "InvalidReplyError")
    /\ op = "serialize" =>
           /\ Keys(Message(input)) \subseteq
                  (IF input.kind = "Request"
                   THEN {"id", "jsonrpc", "method", "params"}
                   ELSE {"id", "jsonrpc", "error", "result"})
           /\ IsBytes(output) => output.doc = Message(input)

\* C11 witness: a request envelope that is well formed but for a result key
\* was rejected with InvalidRequest.
C11_Witness ==
    /\ ParsedRequestEnvelope
    /\ DecodedRequest = Envelope(IntV(1), JSON_RPC_VERSION, StrV("add"), ListV(1),
                                  Absent, IntV(5), Absent)
    /\ Raises(output, "InvalidRequestError")

\* ------------------------------------------------------------ create_request

\* create_request is entered (lines 138-144): both args and kwargs raises;
\* a one-way request gets uid None; otherwise _get_uid is called.
CreateRequestCall(p, method, args, kwargs, one_way) ==
    /\ pc[p] = "idle"
    /\ calls < MaxCalls
    /\ calls' = calls + 1
    /\ LET f == [NoFrame EXCEPT !.method = method, !.args = args,
                                !.kwargs = kwargs, !.one_way = one_way]
       IN  IF Truthy(args) /\ Truthy(kwargs)
           THEN /\ frame' = [frame EXCEPT ![p] =
                       [f EXCEPT !.result = InvalidRequestError(
                            "Does not support args and kwargs at the same time.")]]
                /\ pc' = [pc EXCEPT ![p] = "done"]
           ELSE /\ frame' = [frame EXCEPT ![p] = f]
                /\ pc' = [pc EXCEPT ![p] = IF one_way THEN "construct" ELSE "load"]
    /\ UNCHANGED <<protocolVars, callVars, returned, serverVars>>

\* _get_uid, line 135: self._counter += 1 reads the attribute ...
GetUidLoad(p) ==
    /\ pc[p] = "load"
    /\ frame' = [frame EXCEPT ![p].tmp = counter]
    /\ pc' = [pc EXCEPT ![p] = "store"]
    /\ UNCHANGED <<protocolVars, callVars, calls, returned, serverVars>>

\* The store of line 135 written wrongly: the counter advances by two.
GetUidStore_ByTwo(p) ==
    /\ pc[p] = "store"
    /\ counter' = frame[p].tmp + 2
    /\ pc' = [pc EXCEPT ![p] = "return"]
    /\ UNCHANGED <<serializer, callVars, frame, calls, returned, serverVars>>

\* ... and stores the value read plus one.
GetUidStore(p) ==
    /\ pc[p] = "store"
    /\ counter' = frame[p].tmp + 1
    /\ pc' = [pc EXCEPT ![p] = "return"]
    /\ UNCHANGED <<serializer, callVars, frame, calls, returned, serverVars>>

\* _get_uid, line 136: return self._counter reads the attribute again.
GetUidReturn(p) ==
    /\ pc[p] = "return"
    /\ frame' = [frame EXCEPT ![p].uid = IntV(counter)]
    /\ pc' = [pc EXCEPT ![p] = "construct"]
    /\ UNCHANGED <<protocolVars, callVars, calls, returned, serverVars>>

\* create_request, line 146: the Request is constructed and returned.
CreateRequestReturn(p) ==
    /\ pc[p] = "construct"
    /\ frame' = [frame EXCEPT ![p].result =
                    Request(serializer, frame[p].method, frame[p].uid,
                            frame[p].args, frame[p].kwargs)]
    /\ returned' = IF frame[p].one_way \/ ~IsRequest(frame'[p].result) THEN returned
                   ELSE Append(returned, frame[p].uid.v)
    /\ pc' = [pc EXCEPT ![p] = "done"]
    /\ UNCHANGED <<protocolVars, callVars, calls, serverVars>>

\* The caller drops the result of its call.
Finish(p) ==
    /\ pc[p] = "done"
    /\ pc' = [pc EXCEPT ![p] = "idle"]
    /\ frame' = [frame EXCEPT ![p] = NoFrame]
    /\ UNCHANGED <<protocolVars, callVars, calls, returned, serverVars>>

\* request.serialize() on the Request that create_request returned to p.
SerializeRequest(p) ==
    /\ pc[p] = "done"
    /\ IsRequest(frame[p].result)
    /\ op = "idle"
    /\ op' = "serialize"
    /\ input' = frame[p].result
    /\ output' = Serialize(frame[p].result)
    /\ source' = frame[p].result
    /\ pc' = [pc EXCEPT ![p] = "idle"]
    /\ frame' = [frame EXCEPT ![p] = NoFrame]
    /\ UNCHANGED <<protocolVars, calls, returned, serverVars>>

\* Request(protocol, method, uid, args, kwargs) called directly
ConstructRequest(method, uid, args, kwargs) ==
    /\ op = "idle"
    /\ op' = "Request"
    /\ input' = [method |-> method, uid |-> uid, args |-> args, kwargs |-> kwargs]
    /\ output' = Request(serializer, method, uid, args, kwargs)
    /\ UNCHANGED <<serializer, counter, source, clientVars, serverVars>>

\* protocol.parse_request(...) on the bytes just produced
ParseSerializedRequest ==
    /\ op = "serialize"
    /\ IsRequest(source)
    /\ IsBytes(output)
    /\ op' = "parse_request"
    /\ input' = output
    /\ output' = parse_request(serializer, output)
    /\ UNCHANGED <<serializer, counter, source, clientVars, serverVars>>

MethodNames == {StrV("add"), StrV("ping")}
ArgsValues == {Null, ListV(0), ListV(1)}
KwargsValues == {Null, DictV(0), DictV(1)}

\* Concurrent callers of create_request.
NextUid ==
    \E p \in Callers :
        \/ \E args \in {Null, ListV(1)}, kwargs \in {Null, DictV(1)}, one_way \in BOOLEAN :
               CreateRequestCall(p, StrV("add"), args, kwargs, one_way)
        \/ GetUidLoad(p)
        \/ GetUidStore(p)
        \/ GetUidReturn(p)
        \/ CreateRequestReturn(p)
        \/ Finish(p)

InitUid ==
    /\ InitProtocol
    /\ InitCalls
    /\ InitClient
    /\ trace = "none"
    /\ InitServerIdle

SpecUid == InitUid /\ [][NextUid]_vars

\* One caller: create_request, serialize, parse_request on the same instance.
NextClient ==
    \/ \E method \in MethodNames, args \in ArgsValues, kwargs \in KwargsValues,
          one_way \in BOOLEAN :
           CreateRequestCall(1, method, args, kwargs, one_way)
    \/ GetUidLoad(1)
    \/ GetUidStore(1)
    \/ GetUidReturn(1)
    \/ CreateRequestReturn(1)
    \/ Finish(1)
    \/ SerializeRequest(1)
    \/ ParseSerializedRequest
    \/ Return

SpecClient == InitUid /\ [][NextClient]_vars

\* ------------------------------------------------------------ claims on requests

\* C1: under any interleaving of concurrent create_request calls with
\* one_way=false on one protocol instance, the uids returned are pairwise
\* distinct (as uids that strictly increase must be): no two requests
\* receive the same uid.
C1_UidsPairwiseDistinct ==
    \A i, j \in 1..Len(returned) : i < j => returned[i] # returned[j]

\* C4: parse_request(r.serialize()), for a Request r that create_request
\* returned on the same protocol instance, returns a Request with the
\* method, args, kwargs and uid of r.
C4_RoundTrip ==
    op = "parse_request" /\ source # Null =>
        /\ IsRequest(output)
        /\ output.method = source.method
        /\ output.args = source.args
        /\ output.kwargs = source.kwargs
        /\ output.uid = source.uid

\* ------------------------------------------------------------ Server.handler

Event(ev, dir, arg, ran) == [ev |-> ev, dir |-> dir, arg |-> arg, ran |-> ran]

\* Lines 69-72 and 87-90 for a trace that is not a coroutine object:
\* iscoroutine(self.trace) is false, and a callable trace is called without
\* await. Calling a plain function runs the hook; calling an async def
\* function only creates a coroutine, whose body never runs.
TraceCall(direction, message) ==
    CASE trace = "function" -> <<Event("trace", direction, message, TRUE)>>
      [] trace = "coroutinefunction" -> <<Event("trace", direction, message, FALSE)>>
      [] OTHER -> <<>>

\* Lines 82-92: serialize the response, report it to the hook, return it;
\* with no response nothing is returned.
SendReply(response) ==
    IF response = Null
    THEN [ret |-> Null, events |-> <<Event("return", "", Null, TRUE)>>]
    ELSE LET result == Serialize(response)
         IN  [ret |-> result,
              events |-> <<Event("serialize", "", response, TRUE)>>
                         \o TraceCall("-->", result)
                         \o <<Event("return", "", result, TRUE)>>]

\* Dispatcher.dispatch(request) when the method returns value: the response
\* for a two-way request, nothing for a one-way request.
Dispatcher_dispatch(request, value) ==
    IF request.uid = Null THEN Null
    ELSE create_response(request.serializer, request, value)

\* The try block of lines 76-78 is left before dispatch when parse_request
\* raises; written wrongly, dispatch is reached whatever parse_request did.
ParseFailed_Never(request) == FALSE

\* Lines 76-80: an exception of parse_request leaves the try block before
\* line 78, so dispatch is not called.
ParseFailed(request) == IsRaise(request)

\* The transport calls handler(message). Lines 69-78, up to the await of
\* dispatch; when parse_request raises, lines 79-92 follow at once.
\* A trace that is a coroutine object passes iscoroutine and is then called
\* (line 70), which raises TypeError out of the handler.
HandlerStart(h, message) ==
    /\ hpc[h] = "idle"
    /\ hmsg' = [hmsg EXCEPT ![h] = message]
    /\ IF trace = "coroutine"
       THEN /\ hpc' = [hpc EXCEPT ![h] = "raised"]
            /\ hret' = [hret EXCEPT ![h] = PyException("TypeError")]
            /\ events' = [events EXCEPT ![h] = <<>>]
            /\ UNCHANGED hreq
       ELSE LET request == parse_request(serializer, message)
                before == TraceCall("-->", message)
                              \o <<Event("parse_request", "", message, TRUE)>>
            IN  IF ParseFailed(request)
                THEN LET response == create_error_response(serializer, request, Null)
                         sent == SendReply(response)
                     IN  /\ hpc' = [hpc EXCEPT ![h] = "returned"]
                         /\ hret' = [hret EXCEPT ![h] = sent.ret]
                         /\ events' = [events EXCEPT ![h] =
                                before
                                \o <<Event("create_error_response", "", request, TRUE)>>
                                \o sent.events]
                         /\ UNCHANGED hreq
                ELSE /\ hpc' = [hpc EXCEPT ![h] = "dispatch"]
                     /\ hreq' = [hreq EXCEPT ![h] = request]
                     /\ events' = [events EXCEPT ![h] =
                            before \o <<Event("dispatch", "", request, TRUE)>>]
                     /\ UNCHANGED hret
    /\ UNCHANGED <<protocolVars, callVars, clientVars, trace>>

\* The awaited dispatch returns (line 78); lines 82-92 follow.
DispatchReturn(h, value) ==
    /\ hpc[h] = "dispatch"
    /\ LET response == Dispatcher_dispatch(hreq[h], value)
           sent == SendReply(response)
       IN  /\ hret' = [hret EXCEPT ![h] = sent.ret]
           /\ events' = [events EXCEPT ![h] =
                  events[h] \o <<Event("dispatched", "", value, TRUE)>> \o sent.events]
    /\ hpc' = [hpc EXCEPT ![h] = "returned"]
    /\ UNCHANGED <<protocolVars, callVars, clientVars, trace, hmsg, hreq>>

\* Lines 79-80 written with the request kept in a slot that all runs share
\* (the first run's) instead of the local variable of line 74.
DispatchRaise_SharedRequest(h, exc) ==
    /\ hpc[h] = "dispatch"
    /\ LET response == create_error_response(serializer, exc, hreq[1])
           sent == SendReply(response)
       IN  /\ hret' = [hret EXCEPT ![h] = sent.ret]
           /\ events' = [events EXCEPT ![h] =
                  events[h] \o <<Event("dispatched", "", exc, TRUE),
                                  Event("create_error_response", "", exc, TRUE)>>
                            \o sent.events]
    /\ hpc' = [hpc EXCEPT ![h] = "returned"]
    /\ UNCHANGED <<protocolVars, callVars, clientVars, trace, hmsg, hreq>>

\* The awaited dispatch raises exc (lines 79-80); lines 82-92 follow.
DispatchRaise(h, exc) ==
    /\ hpc[h] = "dispatch"
    /\ LET response == create_error_response(serializer, exc, hreq[h])
           sent == SendReply(response)
       IN  /\ hret' = [hret EXCEPT ![h] = sent.ret]
           /\ events' = [events EXCEPT ![h] =
                  events[h] \o <<Event("dispatched", "", exc, TRUE),
                                  Event("create_error_response", "", exc, TRUE)>>
                            \o sent.events]
    /\ hpc' = [hpc EXCEPT ![h] = "returned"]
    /\ UNCHANGED <<protocolVars, callVars, clientVars, trace, hmsg, hreq>>

\* The transport takes what the handler returned (or raised).
HandlerDone(h) ==
    /\ hpc[h] \in {"returned", "raised"}
    /\ hpc' = [hpc EXCEPT ![h] = "idle"]
    /\ hmsg' = [hmsg EXCEPT ![h] = Null]
    /\ hreq' = [hreq EXCEPT ![h] = Null]
    /\ hret' = [hret EXCEPT ![h] = Null]
    /\ events' = [events EXCEPT ![h] = <<>>]
    /\ UNCHANGED <<protocolVars, callVars, clientVars, trace>>

\* Messages a transport delivers: requests (two-way with ids 1 and 2,
\* one-way, with a params that is neither list nor dict) in either encoding,
\* and bytes that do not decode.
RequestMessage(id, params) ==
    Envelope(id, JSON_RPC_VERSION, StrV("add"), params, Absent, Absent, Absent)

ServerMessages ==
    {Garbage}
    \cup {[codec |-> c, doc |-> d] :
            c \in Codecs,
            d \in {RequestMessage(IntV(1), ListV(1)), RequestMessage(IntV(2), DictV(1)),
                   RequestMessage(Absent, ListV(1)), RequestMessage(IntV(1), IntV(5))}}

\* What the dispatched method returns, and what dispatch raises.
DispatchValues == {IntV(5), IntV(6)}
DispatchErrors == {MethodNotFoundError, PyException("ValueError")}

InitServer ==
    /\ InitProtocol
    /\ InitCalls
    /\ InitClient
    /\ trace \in TraceKinds
    /\ InitServerIdle

NextServer ==
    \E h \in Handlers :
        \/ \E message \in ServerMessages : HandlerStart(h, message)
        \/ \E value \in DispatchValues : DispatchReturn(h, value)
        \/ \E exc \in DispatchErrors : DispatchRaise(h, exc)
        \/ HandlerDone(h)

SpecServer == InitServer /\ [][NextServer]_vars

\* ------------------------------------------------------------ claims on the handler

\* C2: a handler run that decoded a two-way request (integer id) returns
\* encoded reply bytes to the transport, whether dispatch returned a
\* response or raised.
C2_TwoWayRequestReplied ==
    \A h \in Handlers :
        hpc[h] = "returned" /\ IsRequest(hreq[h]) /\ hreq[h].uid.t = "int"
            => IsBytes(hret[h])

\* C3: a handler run that decoded a one-way request (no id) returns no
\* reply to the transport, whether dispatch succeeded or raised.
C3_OneWayRequestSilent ==
    \A h \in Handlers :
        hpc[h] = "returned" /\ IsRequest(hreq[h]) /\ hreq[h].uid = Null
            => hret[h] = Null

\* ------------------------------------------------------------ one instance, used sequentially

\* No call on the instance is under way.
Quiet == op = "idle" /\ pc[1] = "idle" /\ hpc[1] = "idle"

\* Replies a transport delivers: a result, an error, both, in either
\* encoding, and bytes that do not decode.
ClientMessages ==
    {Garbage}
    \cup {[codec |-> c, doc |-> Envelope(IntV(1), JSON_RPC_VERSION, Absent, Absent, e, r, Absent)] :
            c \in Codecs,
            e \in {Absent, ErrorDict(IntV(-32603), StrV("Internal error"), Null)},
            r \in {Absent, IntV(5)}}

\* One thread of control uses one protocol instance and its server: every
\* operation of the protocol and every handler run, one after the other.
NextInstance ==
    \/ \E method \in MethodNames, args \in ArgsValues, kwargs \in KwargsValues,
          one_way \in BOOLEAN :
           Quiet /\ CreateRequestCall(1, method, args, kwargs, one_way)
    \/ GetUidLoad(1)
    \/ GetUidStore(1)
    \/ GetUidReturn(1)
    \/ CreateRequestReturn(1)
    \/ Finish(1)
    \/ \E method \in MethodNames, uid \in {Null, IntV(1)}, args \in ArgsValues,
          kwargs \in KwargsValues :
           Quiet /\ ConstructRequest(method, uid, args, kwargs)
    \/ \E data \in ServerMessages : Quiet /\ ParseRequest(data)
    \/ \E data \in ClientMessages : Quiet /\ ParseResponse(data)
    \/ \E exc \in Exceptions, request \in RequestArguments :
           Quiet /\ CreateErrorResponse(exc, request)
    \/ \E request \in RequestObjects, reply \in ReplyValues :
           Quiet /\ CreateResponse(request, reply)
    \/ SerializeResponse
    \/ Return
    \/ \E message \in ServerMessages : Quiet /\ HandlerStart(1, message)
    \/ \E value \in DispatchValues : DispatchReturn(1, value)
    \/ \E exc \in DispatchErrors : DispatchRaise(1, exc)
    \/ HandlerDone(1)

SpecInstance == InitServer /\ [][NextInstance]_vars

\* ------------------------------------------------------------ claims on one instance

\* Every Request object that the state holds.
RequestsHeld ==
    {x \in {frame[p].result : p \in Callers} \cup {hreq[h] : h \in Handlers}
            \cup {output, source} : IsRequest(x)}

\* C12: create_request with a non-empty args and a non-empty kwargs fails
\* with InvalidRequest (code -32600), for every method name and both values
\* of one_way; Request's constructor fails in the same way; and no Request
\* that create_request, the constructor or parse_request returned holds
\* both a non-empty args and a non-empty kwargs.
C12_ArgsAndKwargsExclusive ==
    /\ \A p \in Callers :
           Truthy(frame[p].args) /\ Truthy(frame[p].kwargs) =>
               /\ pc[p] = "done"
               /\ Raises(frame[p].result, "InvalidRequestError")
               /\ frame[p].result.code = IntV(-32600)
    /\ op = "Request" /\ Truthy(input.args) /\ Truthy(input.kwargs) =>
           Raises(output, "InvalidRequestError") /\ output.code = IntV(-32600)
    /\ \A r \in RequestsHeld : ~(Truthy(r.args) /\ Truthy(r.kwargs))

\* C12 witness: a one-way create_request with args [x] and kwargs {k: x}
\* has failed with InvalidRequest.
C12_Witness ==
    /\ pc[1] = "done"
    /\ frame[1].one_way
    /\ frame[1].args = ListV(1)
    /\ frame[1].kwargs = DictV(1)
    /\ Raises(frame[1].result, "InvalidRequestError")

\* C13: create_response(request, v).serialize(), for a request with uid u,
\* returns to its caller the encoding of exactly the envelope
\* {jsonrpc: "2.0", id: u, result: v}.
C13_SuccessResponseSerialized ==
    op = "serialize" /\ source.kind = "SuccessResponse" =>
        /\ IsBytes(output)
        /\ Serializer_deserialize(serializer, output) =
               Envelope(source.uid, JSON_RPC_VERSION, Absent, Absent, Absent,
                        source.result, Absent)

\* ------------------------------------------------------------ claims on handler runs

\* The steps of handler h's run so far that are ev.
Steps(h, ev) == {i \in 1..Len(events[h]) : events[h][i].ev = ev}

\* The id of the envelope in handler h's message (None when it has none).
MessageId(h) == Get(json_loads(hmsg[h]).id)

\* C14: when a handler run decoded a two-way request and dispatch raised an
\* exception that is not a protocol error, the ErrorResponse produced has
\* code -32603 and the uid of the decoded request.
C14_GenericFailureReply ==
    \A h \in Handlers : \A i \in Steps(h, "create_error_response") :
        (/\ Steps(h, "dispatch") # {}
         /\ ~IsProtocolError(events[h][i].arg)
         /\ hreq[h].uid # Null)
        => /\ i - 1 \in Steps(h, "dispatched")
           /\ i + 1 \in Steps(h, "serialize")
           /\ events[h][i + 1].arg.kind = "ErrorResponse"
           /\ events[h][i + 1].arg.code = IntV(-32603)
           /\ events[h][i + 1].arg.uid = hreq[h].uid
           /\ events[h][i + 1].arg.uid = MessageId(h)

\* C14 witness: the request with id 2 was dispatched and dispatch raised
\* ValueError.
C14_Witness ==
    /\ hpc[1] = "returned"
    /\ IsRequest(hreq[1])
    /\ hreq[1].uid = IntV(2)
    /\ \E i \in Steps(1, "create_error_response") :
           events[1][i].arg = PyException("ValueError")

\* The bytes of handler h's message do not decode.
Undecodable(h) == hmsg[h] # Null /\ IsRaise(json_loads(hmsg[h]))

\* C15: a handler run on bytes that do not decode has parse_request raise
\* ParseError (code -32700); the handler does not raise it but makes an
\* ErrorResponse with uid None of it, and returns that response's encoding.
C15_UndecodableBytesReplied ==
    \A h \in Handlers :
        Undecodable(h) /\ trace # "coroutine" =>
            /\ hpc[h] = "returned"
            /\ \E i \in Steps(h, "create_error_response") :
                   /\ i - 1 \in Steps(h, "parse_request")
                   /\ events[h][i].arg = ParseError
                   /\ events[h][i].arg.code = IntV(-32700)
                   /\ i + 1 \in Steps(h, "serialize")
                   /\ events[h][i + 1].arg.kind = "ErrorResponse"
                   /\ events[h][i + 1].arg.uid = Null
                   /\ IsBytes(hret[h])
                   /\ hret[h] = Serializer_serialize(serializer,
                                    ErrorResponse_msg(events[h][i + 1].arg))
                   /\ hret[h].doc.id = Null
                   /\ hret[h].doc.error # Absent

\* C15 witness: a handler with a plain function as hook has returned from a
\* run on bytes that do not decode.
C15_Witness ==
    /\ trace = "function"
    /\ hpc[1] = "returned"
    /\ hmsg[1] = Garbage
    /\ IsBytes(hret[1])

\* C16: in a handler run dispatch is invoked at most once, and only after
\* parse_request has returned a Request for the run's message; when
\* parse_request raises, dispatch is not invoked.
C16_DispatchOnlyAfterParse ==
    \A h \in Handlers :
        /\ Cardinality(Steps(h, "dispatch")) <= 1
        /\ \A i \in Steps(h, "dispatch") :
               /\ i - 1 \in Steps(h, "parse_request")
               /\ events[h][i - 1].arg = hmsg[h]
               /\ IsRequest(parse_request(serializer, hmsg[h]))
               /\ events[h][i].arg = parse_request(serializer, hmsg[h])
        /\ (hmsg[h] # Null /\ IsRaise(parse_request(serializer, hmsg[h])))
               => Steps(h, "dispatch") = {}

\* C16 witness: one handler has dispatched its request and returned, the
\* other has returned from a message whose params parse_request refuses.
C16_Witness ==
    /\ hpc[1] = "returned" /\ Steps(1, "dispatch") # {}
    /\ hpc[2] = "returned" /\ Raises(parse_request(serializer, hmsg[2]), "InvalidParamsError")

\* C17: with a hook configured (a plain function), a handler run that
\* returns reply bytes has invoked the hook exactly twice: first, before
\* parse_request, with the incoming marker and the run's message; then,
\* after serialize and before the return, with an outgoing marker that
\* differs from the incoming one and the reply bytes. A run that returns
\* no reply has invoked the hook once.
C17_HookIncomingThenOutgoing ==
    \A h \in Handlers :
        trace = "function" /\ hpc[h] = "returned" =>
            /\ 1 \in Steps(h, "trace")
            /\ events[h][1].arg = hmsg[h]
            /\ 2 \in Steps(h, "parse_request")
            /\ IF hret[h] = Null
               THEN Steps(h, "trace") = {1}
               ELSE \E i \in Steps(h, "trace") :
                       /\ Steps(h, "trace") = {1, i}
                       /\ i - 1 \in Steps(h, "serialize")
                       /\ i + 1 \in Steps(h, "return")
                       /\ events[h][i].arg = hret[h]
                       /\ events[h][i].dir # events[h][1].dir

\* C18: with an async def function as hook, every invocation of the hook
\* made by a handler run has run the hook's body to its end before the
\* handler's next step, and the incoming invocation comes first.
C18_AsyncHookAwaited ==
    \A h \in Handlers :
        trace = "coroutinefunction" /\ hpc[h] # "idle" =>
            /\ 1 \in Steps(h, "trace")
            /\ \A i \in Steps(h, "trace") : events[h][i].ran

\* The counter moves only at the store of _get_uid, by one, inside a
\* create_request call with one_way=false.
CounterStep ==
    counter' # counter =>
        /\ counter' = counter + 1
        /\ pc[1] = "store"
        /\ ~frame[1].one_way
        /\ ~(Truthy(frame[1].args) /\ Truthy(frame[1].kwargs))

\* C19: used by one thread of control, the counter of a protocol instance
\* equals its initial value plus the number of create_request calls with
\* one_way=false that returned a Request; only such a call moves it, by
\* one: one-way and failing create_request calls, create_response,
\* create_error_response, parse_request, parse_response and handler runs
\* leave it as it is, and it never decreases.
C19_CounterFrame ==
    /\ [](pc[1] \in {"idle", "done"} => counter = Len(returned))
    /\ [][CounterStep]_vars

\* C19 witness: after three create_request calls of which two returned a
\* two-way Request, parse_response has run and the counter is 2.
C19_Witness ==
    /\ calls = 3
    /\ Len(returned) = 2
    /\ counter = 2
    /\ pc[1] = "idle"
    /\ op = "parse_response"

\* What handler returns for message when it runs alone and dispatch ends
\* with outcome (a value returned or an exception raised).
HandledAlone(message, outcome) ==
    LET request == parse_request(serializer, message)
        response == IF IsRaise(request)
                    THEN create_error_response(serializer, request, Null)
                    ELSE IF IsRaise(outcome)
                         THEN create_error_response(serializer, outcome, request)
                         ELSE Dispatcher_dispatch(request, outcome)
    IN  IF response = Null THEN Null ELSE Serialize(response)

\* The outcome of handler h's own dispatch (None when it made none).
OwnOutcome(h) ==
    IF Steps(h, "dispatched") = {} THEN Null
    ELSE events[h][CHOOSE i \in Steps(h, "dispatched") : TRUE].arg

\* C20: under any interleaving of handler runs on one server, what a run
\* returns is what its own message and its own dispatch outcome give when
\* handled alone, and reply bytes of a run that decoded a request carry the
\* id of that run's message.
C20_HandlersIndependent ==
    \A h \in Handlers :
        hpc[h] = "returned" =>
            /\ hret[h] = HandledAlone(hmsg[h], OwnOutcome(h))
            /\ IsBytes(hret[h]) /\ IsRequest(hreq[h]) => hret[h].doc.id = MessageId(h)

\* C20 witness: two runs on messages with ids 1 and 2 have both gone
\* through dispatch, and each returned a reply with its own id.
C20_Witness ==
    /\ hpc[1] = "returned" /\ hpc[2] = "returned"
    /\ IsRequest(hreq[1]) /\ IsRequest(hreq[2])
    /\ IsBytes(hret[1]) /\ IsBytes(hret[2])
    /\ MessageId(1) = IntV(1) /\ MessageId(2) = IntV(2)
    /\ hret[1].doc.id = IntV(1)
    /\ hret[2].doc.id = IntV(2)

====
